---- MODULE Spec2Model ----
(***************************************************************************)
(* Model of the analysis-workbook reader of geochem-dataset:               *)
(*   src/src/geochem_dataset/excel/interfaces.py                           *)
(*     AnalysisDatasetWorkbook, AnalysisDatasetWorksheet                    *)
(*   src/src/geochem_dataset/excel/utils.py                                *)
(*     Worksheet.crop_out_empty_rows_and_columns, xlref, xlcolref, xlrowref *)
(*                                                                         *)
(* A worksheet grid is a sequence of rows, a row a sequence of cells.      *)
(* Indexes are the zero-based indexes of the Python code; Cell(d, r, c)    *)
(* reads d[r][c].  Cells hold text, Python None or numpy.nan; the grids    *)
(* are numpy arrays of dtype object.                                       *)
(***************************************************************************)
EXTENDS Integers, Sequences, FiniteSets, TLC

VARIABLES
    fixture,    \* how the tests build the workbook: the layout of each worksheet and one cell modification
    raw,        \* the workbook source: one grid of cell values per worksheet
    pc,         \* position of the caller: load, parse, check, ready, iter, done, failed
    data,       \* Worksheet.data of every worksheet
    ws_i,       \* position of the loop of AnalysisDatasetWorkbook._parse_data
    geometry,   \* AnalysisDatasetWorksheet._geometry of every parsed worksheet
    indexes,    \* AnalysisDatasetWorksheet._indexes of every parsed worksheet
    error,      \* the exception that left the constructor, or NoError
    gen,        \* loop variables of the suspended AnalysisDatasetWorkbook.results generator
    stream,     \* the records the generator has yielded so far
    expected,   \* AnalysisDatasetWorkbook.result_count as read by the consumer
    importer    \* DatasetImporter._insert_bulk: its local dictionaries, the chunk and the database tables

vars == <<fixture, raw, pc, data, ws_i, geometry, indexes, error, gen, stream, expected, importer>>

(***************************************************************************)
(* Bounds of the model                                                     *)
(***************************************************************************)
MaxSubsampleColumns == 3
MaxMetadataTypes == 2
MaxResultTypes == 2
MaxSubsamples == 2
MaxWorksheets == 2

(***************************************************************************)
(* Cell values                                                             *)
(***************************************************************************)
PyNone == "<None>"
PyNaN == "<nan>"

\* str.strip() on the text values the model uses
Strip(v) ==
    CASE v = " " -> ""
      [] v = " S1 " -> "S1"
      [] OTHER -> v

\* str(value) / f-string rendering of a cell value
PyStr(v) ==
    CASE v = PyNone -> "None"
      [] v = PyNaN -> "nan"
      [] OTHER -> v

\* repr(value) of a cell value
PyRepr(v) ==
    CASE v = PyNone -> "None"
      [] v = PyNaN -> "nan"
      [] OTHER -> "'" \o v \o "'"

RECURSIVE JoinRepr(_)
JoinRepr(t) ==
    IF Len(t) = 0 THEN ""
    ELSE IF Len(t) = 1 THEN PyRepr(t[1])
    ELSE PyRepr(t[1]) \o ", " \o JoinRepr(Tail(t))

\* repr of a tuple of cell values
TupleRepr(t) ==
    IF Len(t) = 1 THEN "(" \o PyRepr(t[1]) \o ",)"
    ELSE "(" \o JoinRepr(t) \o ")"

\* bool(value) of a normalized cell value: None is false, nan and text are true
Truthy(v) == v # PyNone

\* pandas.isna(value)
\* the test "value is None" in the place of pandas.isna
IsNa_NoneOnly(v) == v = PyNone

IsNa(v) == v \in {PyNone, PyNaN}

(***************************************************************************)
(* Grids, slices                                                           *)
(***************************************************************************)
NRows(d) == Len(d)
NCols(d) == Len(d[1])
Cell(d, r, c) == d[r + 1][c + 1]

Slice(a, b) == [start |-> a, stop |-> b]

\* range(s.start, s.stop)
Range(s) == {i \in s.start .. (s.stop - 1) : TRUE}

\* the indexes that seq[s] selects in a sequence of length n
SliceIdx(s, n) == {i \in Range(s) : i >= 0 /\ i < n}

SetMin(S) == CHOOSE x \in S : \A y \in S : x <= y
SetMax(S) == CHOOSE x \in S : \A y \in S : x >= y

\* row[s] as a tuple
RowSlice(row, s) ==
    LET lo == IF s.start < 0 THEN 0 ELSE s.start
        hi == IF s.stop > Len(row) THEN Len(row) ELSE s.stop
    IN  IF hi <= lo THEN <<>> ELSE [i \in 1 .. (hi - lo) |-> row[lo + i]]

\* seq[i] for an index that may be negative
PyIndex(seq, i) == IF i < 0 THEN seq[Len(seq) + i + 1] ELSE seq[i + 1]

(***************************************************************************)
(* Excel coordinate conversion                                             *)
(***************************************************************************)
ColumnLetters == <<"A", "B", "C", "D", "E", "F", "G", "H", "I", "J", "K", "L", "M",
                   "N", "O", "P", "Q", "R", "S", "T", "U", "V", "W", "X", "Y", "Z">>

xlrowref(row_idx) == row_idx + 1

xlcolref(column_idx) == ColumnLetters[column_idx + 1]

xlref(row_idx, column_idx) == xlcolref(column_idx) \o ToString(xlrowref(row_idx))

(***************************************************************************)
(* Exceptions                                                              *)
(***************************************************************************)
NoError == [type |-> "", message |-> "", kwargs |-> {}, worksheet |-> "",
            cells |-> <<>>, other_worksheet |-> "", other_cells |-> <<>>]

\* errors.IntegrityError(message, **kwargs)
IntegrityError(message, kwargs) ==
    [NoError EXCEPT !.type = "IntegrityError", !.message = message, !.kwargs = kwargs]

\* an exception that is not an IntegrityError (TypeError, IndexError, ...)
Crash(type) == [NoError EXCEPT !.type = type]

(***************************************************************************)
(* Ordering of text, for sorted()                                          *)
(***************************************************************************)
\* the text values of the model in Python's string order
Vocabulary == <<" ", " S1 ", "Duchess", "M1", "M2", "M3", "M4", "METADATA_TYPE", "R1", "R2", "R3", "R4",
                "S1", "S2", "SAMPLE", "SUBR1", "SUBSAMPLE", "SUBSUBSAMPLE", "a", "b", "nan", "v", "x">>

StrRank(v) == CHOOSE i \in 1 .. Len(Vocabulary) : Vocabulary[i] = v

\* a < b on str
StrLess(a, b) == StrRank(a) < StrRank(b)

\* insert pair p behind every element that is not greater (stable)
RECURSIVE InsertSorted(_, _)
InsertSorted(sorted, p) ==
    IF Len(sorted) = 0 THEN <<p>>
    ELSE IF StrLess(p[1], sorted[1][1]) THEN <<p>> \o sorted
    ELSE <<sorted[1]>> \o InsertSorted(Tail(sorted), p)

\* sorted(pairs, key=lambda x: x[0]) for pairs whose keys are text
RECURSIVE SortedByKey(_)
SortedByKey(pairs) ==
    IF Len(pairs) = 0 THEN <<>>
    ELSE InsertSorted(SortedByKey(SubSeq(pairs, 1, Len(pairs) - 1)), pairs[Len(pairs)])

(***************************************************************************)
(* utils.Worksheet: loading                                                *)
(***************************************************************************)
\* rows / columns of the loaded array that are not entirely None
NonEmptyRowIdxes(d) == {r \in 0 .. (NRows(d) - 1) : \E c \in 0 .. (NCols(d) - 1) : Cell(d, r, c) # PyNone}
NonEmptyColIdxes(d) == {c \in 0 .. (NCols(d) - 1) : \E r \in 0 .. (NRows(d) - 1) : Cell(d, r, c) # PyNone}

\* crop_out_empty_rows_and_columns leaves its loop variables unbound on an all-None array
CropFails(d) == NonEmptyRowIdxes(d) = {}

crop_out_empty_rows_and_columns(d) ==
    LET last_nonempty_row_idx == SetMax(NonEmptyRowIdxes(d))
        last_nonempty_col_idx == SetMax(NonEmptyColIdxes(d))
    IN  [r \in 1 .. (last_nonempty_row_idx + 1) |->
            [c \in 1 .. (last_nonempty_col_idx + 1) |-> d[r][c]]]

(***************************************************************************)
(* AnalysisDatasetWorksheet._normalize_data                                *)
(***************************************************************************)
\* numpy.array() gives dtype object when some loaded cell is None; an array
\* loaded from text cells only is a text array and stores nan as the text "nan"
ObjectDtype(loaded) == \E r \in 1 .. NRows(loaded) : \E c \in 1 .. NCols(loaded) : loaded[r][c] = PyNone

NormalizeValue(value, object_dtype) ==
    IF value = PyNone THEN PyNone
    ELSE LET new_value == Strip(value)
         IN  IF new_value = "" THEN (IF object_dtype THEN PyNaN ELSE "nan") ELSE new_value

_normalize_data(d, object_dtype) ==
    [r \in 1 .. NRows(d) |-> [c \in 1 .. NCols(d) |-> NormalizeValue(d[r][c], object_dtype)]]

(***************************************************************************)
(* AnalysisDatasetWorksheet._compute_geometry                              *)
(***************************************************************************)
TypeErrorStop == -1

\* the loop over enumerate(self.data[0][2:]); column_idx counts from 0
RECURSIVE SubsampleColumnsStop(_, _, _)
SubsampleColumnsStop(header, column_idx, subsample_columns_idx_stop) ==
    IF 2 + column_idx >= Len(header) THEN subsample_columns_idx_stop
    ELSE LET heading == header[2 + column_idx + 1]
             previous == PyIndex(header, column_idx - 1)
         IN  IF previous \in {PyNone, PyNaN} THEN TypeErrorStop
             ELSE IF heading # "SUB" \o previous THEN subsample_columns_idx_stop
             ELSE SubsampleColumnsStop(header, column_idx + 1, subsample_columns_idx_stop + 1)

\* only the SAMPLE column is looked at
RowsWithAnySubsampleValue_SampleOnly(d, columns) ==
    {r \in 1 .. (NRows(d) - 1) : Truthy(Cell(d, r, 0))}

\* rows 1.. in which any(row[subsample columns]) holds
RowsWithAnySubsampleValue(d, columns) ==
    {r \in 1 .. (NRows(d) - 1) : \E c \in SliceIdx(columns, NCols(d)) : Truthy(Cell(d, r, c))}

\* row_idx after the loop over enumerate(self.data[1:], 1): the row of the break,
\* or the last row when the loop runs out
SubsampleRowsStartIdx(d, columns) ==
    IF RowsWithAnySubsampleValue(d, columns) # {}
    THEN SetMin(RowsWithAnySubsampleValue(d, columns))
    ELSE NRows(d) - 1

NoGeometry == [error |-> "",
               subsamples |-> [columns |-> Slice(0, 0), rows |-> Slice(0, 0)],
               metadata_types |-> [rows |-> Slice(0, 0), column |-> 0],
               result_types |-> [row |-> 0, columns |-> Slice(0, 0)],
               metadata_sets |-> [rows |-> Slice(0, 0), columns |-> Slice(0, 0)],
               results |-> [rows |-> Slice(0, 0), columns |-> Slice(0, 0)]]

\* the result type columns begin at the metadata-type column
_compute_geometry_Overlap(d) ==
    LET subsample_columns_idx_stop == SubsampleColumnsStop(d[1], 0, 2)
        columns == Slice(0, subsample_columns_idx_stop)
        subsample_rows_start_idx == SubsampleRowsStartIdx(d, columns)
        subsample_rows_stop_idx == NRows(d)
        rows == IF subsample_rows_start_idx # 0
                THEN Slice(subsample_rows_start_idx, subsample_rows_stop_idx)
                ELSE Slice(subsample_rows_stop_idx, subsample_rows_stop_idx)
        metadata_rows == Slice(1, rows.start)
        result_columns == Slice(subsample_columns_idx_stop, NCols(d))
    IN  IF subsample_columns_idx_stop = TypeErrorStop
        THEN [NoGeometry EXCEPT !.error = "TypeError"]
        ELSE IF NRows(d) < 2
        THEN [NoGeometry EXCEPT !.error = "UnboundLocalError"]
        ELSE [error |-> "",
              subsamples |-> [columns |-> columns, rows |-> rows],
              metadata_types |-> [rows |-> metadata_rows, column |-> subsample_columns_idx_stop],
              result_types |-> [row |-> 0, columns |-> result_columns],
              metadata_sets |-> [rows |-> metadata_rows, columns |-> result_columns],
              results |-> [rows |-> rows, columns |-> result_columns]]

_compute_geometry(d) ==
    LET subsample_columns_idx_stop == SubsampleColumnsStop(d[1], 0, 2)
        columns == Slice(0, subsample_columns_idx_stop)
        subsample_rows_start_idx == SubsampleRowsStartIdx(d, columns)
        subsample_rows_stop_idx == NRows(d)
        rows == IF subsample_rows_start_idx # 0
                THEN Slice(subsample_rows_start_idx, subsample_rows_stop_idx)
                ELSE Slice(subsample_rows_stop_idx, subsample_rows_stop_idx)
        metadata_rows == Slice(1, rows.start)
        result_columns == Slice(subsample_columns_idx_stop + 1, NCols(d))
    IN  IF subsample_columns_idx_stop = TypeErrorStop
        THEN [NoGeometry EXCEPT !.error = "TypeError"]
        ELSE IF NRows(d) < 2
        THEN [NoGeometry EXCEPT !.error = "UnboundLocalError"]
        ELSE [error |-> "",
              subsamples |-> [columns |-> columns, rows |-> rows],
              metadata_types |-> [rows |-> metadata_rows, column |-> subsample_columns_idx_stop],
              result_types |-> [row |-> 0, columns |-> result_columns],
              metadata_sets |-> [rows |-> metadata_rows, columns |-> result_columns],
              results |-> [rows |-> rows, columns |-> result_columns]]

(***************************************************************************)
(* The Sample Registry: SamplesInterface.get_by_name                       *)
(***************************************************************************)
\* sample name -> row_idx of the sample in SAMPLES.xlsx
SampleRegistry == [name \in {"S1", "S2"} |-> IF name = "S1" THEN 1 ELSE 2]

NoSample == 0

\* the first row of the registry is returned when no name matches
get_by_name_FirstRow(name) ==
    IF name \in DOMAIN SampleRegistry THEN SampleRegistry[name]
    ELSE IF name = PyNone THEN NoSample ELSE 1

get_by_name(name) == IF name \in DOMAIN SampleRegistry THEN SampleRegistry[name] ELSE NoSample

(***************************************************************************)
(* Python dicts as functions                                               *)
(***************************************************************************)
EmptyDict == [k \in {} |-> 0]

\* the truth value of index.get(key)
DictGetTruthy(index, key) == key \in DOMAIN index /\ index[key] # 0

\* index[key] = value
DictSet(index, key, value) == [k \in (DOMAIN index) \cup {key} |-> IF k = key THEN value ELSE index[k]]

(***************************************************************************)
(* AnalysisDatasetWorksheet._process_subsamples                            *)
(***************************************************************************)
KwDataset == {"dataset", "workbook", "worksheet"}
KwWorkbook == {"workbook", "worksheet"}

\* the first subsample column of the row whose value is None, or -1
FirstNoneColumn(row, columns) ==
    LET t == RowSlice(row, columns)
        S == {i \in 1 .. Len(t) : t[i] = PyNone}
    IN  IF S = {} THEN -1 ELSE SetMin(S) - 1

\* the body of the loop over the subsample rows, for one row
SubsampleRowError(d, g, index, row_idx) ==
    LET row == d[row_idx + 1]
        columns == g.subsamples.columns
        col_idx == FirstNoneColumn(row, columns)
        row_key == RowSlice(row, columns)
    IN  IF col_idx # -1
        THEN IntegrityError("Empty value for column " \o PyStr(d[1][col_idx + 1]) \o " of row "
                                \o ToString(xlrowref(row_idx)), KwDataset)
        ELSE IF get_by_name(row[1]) = NoSample
        THEN IntegrityError("Value for column " \o PyStr(d[1][1]) \o " of row "
                                \o ToString(xlrowref(row_idx)) \o " does not exist in SAMPLES.xlsx", KwDataset)
        ELSE IF DictGetTruthy(index, row_key)
        THEN IntegrityError("Row " \o ToString(row_idx) \o " violates unique constraint on columns: "
                                \o TupleRepr(RowSlice(d[1], columns))
                                \o " (duplicate of row " \o ToString(index[row_key]) \o ")", KwDataset)
        ELSE NoError

RECURSIVE SubsampleRowsLoop(_, _, _, _)
SubsampleRowsLoop(d, g, index, row_idx) ==
    IF row_idx >= g.subsamples.rows.stop \/ row_idx >= NRows(d)
    THEN [error |-> NoError, index |-> index]
    ELSE LET e == SubsampleRowError(d, g, index, row_idx)
         IN  IF e # NoError THEN [error |-> e, index |-> index]
             ELSE SubsampleRowsLoop(d, g, DictSet(index, RowSlice(d[row_idx + 1], g.subsamples.columns), row_idx),
                                    row_idx + 1)

_process_subsamples(d, g) ==
    LET first_row == d[1]
    IN  IF first_row[1] # "SAMPLE"
        THEN [error |-> IntegrityError("Cell A1 must be SAMPLE", KwWorkbook), index |-> EmptyDict]
        ELSE IF Len(first_row) < 2 \/ first_row[2] # "SUBSAMPLE"
        THEN [error |-> IntegrityError("Cell B1 must be SUBSAMPLE", KwWorkbook), index |-> EmptyDict]
        ELSE SubsampleRowsLoop(d, g, EmptyDict, g.subsamples.rows.start)

(***************************************************************************)
(* AnalysisDatasetWorksheet.metadata_types, _process_metadata_types        *)
(***************************************************************************)
\* list(self.metadata_types)
metadata_types(d, g) ==
    LET rows == g.metadata_types.rows
        n == IF rows.stop > rows.start THEN rows.stop - rows.start ELSE 0
    IN  [i \in 1 .. n |-> Cell(d, rows.start + i - 1, g.metadata_types.column)]

MetadataTypeRowError(d, g, index, row_idx) ==
    LET metadata_type == Cell(d, row_idx, g.metadata_types.column)
    IN  IF metadata_type = PyNone
        THEN IntegrityError("Empty value for column METADATA_TYPE on row "
                                \o ToString(xlrowref(row_idx)), KwWorkbook)
        ELSE IF DictGetTruthy(index, metadata_type)
        THEN Crash("AttributeError")   \* self.dataset: the worksheet has no such attribute
        ELSE NoError

RECURSIVE MetadataTypeRowsLoop(_, _, _, _)
MetadataTypeRowsLoop(d, g, index, row_idx) ==
    IF row_idx >= g.metadata_types.rows.stop \/ row_idx >= NRows(d)
    THEN [error |-> NoError, index |-> index]
    ELSE LET e == MetadataTypeRowError(d, g, index, row_idx)
         IN  IF e # NoError THEN [error |-> e, index |-> index]
             ELSE MetadataTypeRowsLoop(d, g, DictSet(index, Cell(d, row_idx, g.metadata_types.column), row_idx),
                                       row_idx + 1)

_process_metadata_types(d, g) ==
    LET metadata_types_col_idx == g.metadata_types.column
    IN  IF metadata_types_col_idx >= NCols(d)
        THEN [error |-> Crash("IndexError"), index |-> EmptyDict]
        ELSE IF Cell(d, 0, metadata_types_col_idx) # "METADATA_TYPE"
        THEN [error |-> IntegrityError("Cell " \o xlref(0, metadata_types_col_idx)
                                           \o " must be METADATA_TYPE", KwWorkbook),
              index |-> EmptyDict]
        ELSE MetadataTypeRowsLoop(d, g, EmptyDict, g.metadata_types.rows.start)

(***************************************************************************)
(* AnalysisDatasetWorksheet._process_result_types_and_metadata_sets        *)
(***************************************************************************)
\* zip(self.metadata_types, metadata_values) for column col_idx
MetadataPairs(d, g, col_idx) ==
    LET types == metadata_types(d, g)
        rows == g.metadata_sets.rows
    IN  [i \in 1 .. Len(types) |-> <<types[i], Cell(d, rows.start + i - 1, col_idx)>>]

\* sorted() compares the metadata types; text and nan do not compare
SortFails(d, g) ==
    LET types == metadata_types(d, g)
    IN  Len(types) >= 2 /\ \E i \in 1 .. Len(types) : types[i] = PyNaN

\* tuple(sorted(zip(self.metadata_types, metadata_values), key=lambda x: x[0]))
metadata_set(d, g, col_idx) == SortedByKey(MetadataPairs(d, g, col_idx))

ResultTypeColumnError(d, g, index, col_idx) ==
    LET result_type == Cell(d, g.result_types.row, col_idx)
    IN  IF SortFails(d, g)
        THEN Crash("TypeError")
        ELSE IF result_type = PyNone
        THEN IntegrityError("Empty value for result type in cell " \o xlref(col_idx, g.result_types.row),
                            KwWorkbook)
        ELSE IF DictGetTruthy(index, <<result_type, metadata_set(d, g, col_idx)>>)
        THEN Crash("AttributeError")   \* self.dataset: the worksheet has no such attribute
        ELSE NoError

RECURSIVE ResultTypeColumnsLoop(_, _, _, _)
ResultTypeColumnsLoop(d, g, index, col_idx) ==
    IF col_idx >= g.result_types.columns.stop \/ col_idx >= NCols(d)
    THEN [error |-> NoError, index |-> index]
    ELSE LET e == ResultTypeColumnError(d, g, index, col_idx)
         IN  IF e # NoError THEN [error |-> e, index |-> index]
             ELSE ResultTypeColumnsLoop(d, g,
                      DictSet(index, <<Cell(d, g.result_types.row, col_idx), metadata_set(d, g, col_idx)>>, col_idx),
                      col_idx + 1)

_process_result_types_and_metadata_sets(d, g) ==
    ResultTypeColumnsLoop(d, g, EmptyDict, g.result_types.columns.start)

(***************************************************************************)
(* AnalysisDatasetWorksheet._check_empty_regions                           *)
(***************************************************************************)
\* the method body is a TODO comment followed by pass
_check_empty_regions(d, g) == NoError

(***************************************************************************)
(* AnalysisDatasetWorksheet.parse_data                                     *)
(***************************************************************************)
NoIndexes == [subsamples |-> EmptyDict, metadata_types |-> EmptyDict,
              result_type_metadata_sets |-> EmptyDict]

\* the worksheet the exception names: the worksheet keyword argument, when given
Named(e, name) == IF "worksheet" \in e.kwargs THEN [e EXCEPT !.worksheet = name] ELSE e

parse_data(d0, name, object_dtype) ==
    LET d == _normalize_data(d0, object_dtype)
        g == _compute_geometry(d)
        s == _process_subsamples(d, g)
        m == _process_metadata_types(d, g)
        r == _process_result_types_and_metadata_sets(d, g)
        done == [error |-> NoError, data |-> d, geometry |-> g, indexes |-> NoIndexes]
    IN  IF g.error # ""
        THEN [done EXCEPT !.error = Crash(g.error)]
        ELSE IF s.error # NoError
        THEN [done EXCEPT !.error = Named(s.error, name)]
        ELSE IF m.error # NoError
        THEN [done EXCEPT !.error = Named(m.error, name)]
        ELSE IF r.error # NoError
        THEN [done EXCEPT !.error = Named(r.error, name)]
        ELSE IF _check_empty_regions(d, g) # NoError
        THEN [done EXCEPT !.error = Named(_check_empty_regions(d, g), name)]
        ELSE [done EXCEPT !.indexes = [subsamples |-> s.index, metadata_types |-> m.index,
                                       result_type_metadata_sets |-> r.index]]

(***************************************************************************)
(* AnalysisDatasetWorksheet: counts and the results generator              *)
(***************************************************************************)
subsample_count(g) == g.subsamples.rows.stop - g.subsamples.rows.start

result_type_count(g) == g.result_types.columns.stop - g.result_types.columns.start

\* the count taken over the rows of the grid below the header
worksheet_result_count_AllRows(g) == (g.subsamples.rows.stop - 1) * result_type_count(g)

worksheet_result_count(g) == subsample_count(g) * result_type_count(g)

\* the Result yielded for (result_row_idx, result_col_idx); position, row and
\* column record where in the workbook the generator stood when it yielded
Result(d, g, name, position, result_row_idx, result_col_idx) ==
    LET subsample == RowSlice(d[result_row_idx + 1], g.subsamples.columns)
        value == Cell(d, result_row_idx, result_col_idx)
    IN  [worksheet |-> name,
         cell |-> xlref(result_row_idx, result_col_idx),
         sample_row_idx |-> get_by_name(subsample[1]),
         subsample |-> Tail(subsample),
         type |-> Cell(d, g.result_types.row, result_col_idx),
         metadata_set |-> metadata_set(d, g, result_col_idx),
         value |-> IF IsNa(value) THEN "" ELSE value,
         position |-> position, row |-> result_row_idx, column |-> result_col_idx]

(***************************************************************************)
(* AnalysisDatasetWorkbook._check_duplicates                               *)
(***************************************************************************)
WsName(i) == "BULK" \o ToString(i)

\* sorted(S) for a set of integers
RECURSIVE SortedInts(_)
SortedInts(S) == IF S = {} THEN <<>> ELSE <<SetMin(S)>> \o SortedInts(S \ {SetMin(S)})

\* [utils.xlref(ri, ci) for ri, ci in itertools.product(row_idxes, col_idxes)]
ProductCells(row_idxes, col_idxes) ==
    [k \in 1 .. (Len(row_idxes) * Len(col_idxes)) |->
        xlref(row_idxes[((k - 1) \div Len(col_idxes)) + 1], col_idxes[((k - 1) % Len(col_idxes)) + 1])]

common_ws_subsamples(idx, i, j) == (DOMAIN idx[i].subsamples) \cap (DOMAIN idx[j].subsamples)

\* the intersection taken with the metadata types index of the previous worksheet
common_ws_result_type_metdata_sets_WrongIndex(idx, i, j) ==
    (DOMAIN idx[i].result_type_metadata_sets) \cap (DOMAIN idx[j].metadata_types)

common_ws_result_type_metdata_sets(idx, i, j) ==
    (DOMAIN idx[i].result_type_metadata_sets) \cap (DOMAIN idx[j].result_type_metadata_sets)

\* the condition with "or" for "and"
DuplicateCondition_Either(idx, i, j) ==
    common_ws_subsamples(idx, i, j) # {} \/ common_ws_result_type_metdata_sets(idx, i, j) # {}

\* the condition under which the pair (worksheet i, previous worksheet j) raises
DuplicateCondition(idx, i, j) ==
    common_ws_subsamples(idx, i, j) # {} /\ common_ws_result_type_metdata_sets(idx, i, j) # {}

\* the worksheet pairs <<i, j>>, j before i, that raise
DuplicatePairs(idx) ==
    {p \in (1 .. Len(idx)) \X (1 .. Len(idx)) : p[2] < p[1] /\ DuplicateCondition(idx, p[1], p[2])}

\* the first raising pair in the order of the two loops
FirstDuplicatePair(idx) ==
    CHOOSE p \in DuplicatePairs(idx) :
        \A q \in DuplicatePairs(idx) : p[1] < q[1] \/ (p[1] = q[1] /\ p[2] <= q[2])

DuplicateAnalysisResultParametersError(idx, i, j) ==
    LET subs == common_ws_subsamples(idx, i, j)
        sets == common_ws_result_type_metdata_sets(idx, i, j)
        ws_subsample_row_idxes == SortedInts({idx[i].subsamples[x] : x \in subs})
        ws_result_type_metadata_set_col_idxes == SortedInts({idx[i].result_type_metadata_sets[x] : x \in sets})
        previous_ws_subsample_row_idxes == SortedInts({idx[j].subsamples[x] : x \in subs})
        previous_ws_result_type_metadata_set_col_idxes ==
            SortedInts({idx[j].result_type_metadata_sets[x] : x \in sets})
    IN  [type |-> "DuplicateAnalysisResultParametersError",
         message |-> "",
         kwargs |-> {"dataset", "workbook", "worksheet", "cells", "other_worksheet", "other_cells"},
         worksheet |-> WsName(i),
         cells |-> ProductCells(ws_subsample_row_idxes, ws_result_type_metadata_set_col_idxes),
         other_worksheet |-> WsName(j),
         other_cells |-> ProductCells(previous_ws_subsample_row_idxes,
                                      previous_ws_result_type_metadata_set_col_idxes)]

_check_duplicates(idx) ==
    IF DuplicatePairs(idx) = {} THEN NoError
    ELSE DuplicateAnalysisResultParametersError(idx, FirstDuplicatePair(idx)[1], FirstDuplicatePair(idx)[2])

(***************************************************************************)
(* AnalysisDatasetWorkbook.result_count and the results generator          *)
(***************************************************************************)
RECURSIVE SumCounts(_)
SumCounts(gs) == IF Len(gs) = 0 THEN 0 ELSE worksheet_result_count(gs[1]) + SumCounts(Tail(gs))

result_count(gs) == SumCounts(gs)

\* the points <<worksheet, row, column>> the nested loops of results visit
LoopPoints(gs) ==
    UNION {{<<w, r, c>> : r \in Range(gs[w].results.rows), c \in Range(gs[w].results.columns)} :
              w \in 1 .. Len(gs)}

\* the two inner loops swapped: columns before rows
LoopBefore_ColumnsFirst(p, q) ==
    \/ p[1] < q[1]
    \/ p[1] = q[1] /\ p[3] < q[3]
    \/ p[1] = q[1] /\ p[3] = q[3] /\ p[2] < q[2]

\* p is visited before q: worksheets outermost, then rows, then columns
LoopBefore(p, q) ==
    \/ p[1] < q[1]
    \/ p[1] = q[1] /\ p[2] < q[2]
    \/ p[1] = q[1] /\ p[2] = q[2] /\ p[3] < q[3]

GenStart == <<0, 0, 0>>

\* the points still to visit when the generator stands at point g
Remaining(gs, g) == {p \in LoopPoints(gs) : g = GenStart \/ LoopBefore(g, p)}

NextPoint(gs, g) == CHOOSE p \in Remaining(gs, g) : \A q \in Remaining(gs, g) : p = q \/ LoopBefore(p, q)

(***************************************************************************)
(* The workbooks the model reads                                           *)
(***************************************************************************)
\* "SAMPLE", "SUBSAMPLE", "SUBSUBSAMPLE", ...
RECURSIVE SubsampleHeading(_)
SubsampleHeading(k) == IF k = 0 THEN "SAMPLE" ELSE "SUB" \o SubsampleHeading(k - 1)

\* the subsample of the i-th subsample row, w columns wide
SubsampleOf(i, w) ==
    [c \in 1 .. w |-> IF c = 1 THEN (IF i % 2 = 1 THEN "S1" ELSE "S2")
                      ELSE IF c = 2 THEN (IF i <= 2 THEN "a" ELSE "b")
                      ELSE "a"]

\* a worksheet in the layout of the class docstring: w subsample columns,
\* m metadata types, r result types, s subsamples
Sheet(w, m, r, s) ==
    LET heading == [c \in 1 .. (w + 1 + r) |->
                        IF c <= w THEN SubsampleHeading(c - 1)
                        ELSE IF c = w + 1 THEN "METADATA_TYPE"
                        ELSE "R" \o ToString(c - w - 1)]
        metadata_row(i) == [c \in 1 .. (w + 1 + r) |->
                        IF c <= w THEN PyNone
                        ELSE IF c = w + 1 THEN "M" \o ToString(i)
                        ELSE "x"]
        subsample_row(i) == [c \in 1 .. (w + 1 + r) |->
                        IF c <= w THEN SubsampleOf(i, w)[c]
                        ELSE IF c = w + 1 THEN PyNone
                        ELSE "v"]
    IN  [k \in 1 .. (1 + m + s) |->
            IF k = 1 THEN heading
            ELSE IF k <= 1 + m THEN metadata_row(k - 1)
            ELSE subsample_row(k - 1 - m)]

\* the values an edit of the source may put into a cell
EditValues == {PyNone, " ", "S1", "Duchess", "M1", "R1", "SUBR1"}

Layout(w, m, r, s) == [w |-> w, m |-> m, r |-> r, s |-> s]

SheetOf(l) == Sheet(l.w, l.m, l.r, l.s)

\* the layouts of workbooks with one worksheet
Layouts == {Layout(w, m, r, s) : w \in 2 .. MaxSubsampleColumns, m \in 0 .. MaxMetadataTypes,
                                 r \in 0 .. MaxResultTypes, s \in 0 .. MaxSubsamples}

\* the layouts of the worksheets of workbooks with several worksheets
MaxSiblingMetadataTypes == 1
SiblingLayouts == {Layout(2, m, r, s) : m \in 0 .. MaxSiblingMetadataTypes,
                                        r \in 1 .. MaxResultTypes, s \in 1 .. MaxSubsamples}

\* the layouts of the worksheets behind the first
FollowerLayouts == {Layout(2, m, MaxResultTypes, MaxSubsamples) : m \in 0 .. MaxSiblingMetadataTypes}

RECURSIVE SiblingTuples(_)
SiblingTuples(n) ==
    IF n = 0 THEN {<<>>}
    ELSE {Append(t, l) : t \in SiblingTuples(n - 1), l \in FollowerLayouts}

\* a modification of one cell of the first worksheet (1-based row and column), or none
NoEdit == [row |-> 0, column |-> 0, value |-> PyNone]

EditsOf(l) ==
    {NoEdit} \cup {[row |-> r, column |-> c, value |-> v] :
                      r \in 1 .. (1 + l.m + l.s), c \in 1 .. (l.w + 1 + l.r), v \in EditValues}

Fixtures ==
    UNION {{[sheets |-> <<l>>, edit |-> e] : e \in EditsOf(l)} : l \in Layouts}
    \cup UNION {{[sheets |-> <<l>> \o t, edit |-> e] : e \in EditsOf(l), t \in SiblingTuples(n - 1)} :
                    l \in SiblingLayouts, n \in 2 .. MaxWorksheets}

\* the workbook source the fixture writes
Written(f) ==
    [i \in 1 .. Len(f.sheets) |->
        IF i = 1 /\ f.edit # NoEdit
        THEN [SheetOf(f.sheets[1]) EXCEPT ![f.edit.row][f.edit.column] = f.edit.value]
        ELSE SheetOf(f.sheets[i])]

(***************************************************************************)
(* The state machine                                                       *)
(***************************************************************************)
\* the importer before _insert_bulk is called: empty dictionaries, an empty chunk, empty tables
NoImporter == [xl_samples |-> EmptyDict, db_metadata_types |-> EmptyDict, db_result_types |-> EmptyDict,
               db_metadata_sets |-> EmptyDict, db_subsamples |-> EmptyDict,
               results_chunk |-> <<>>, consumed |-> 0,
               subsamples |-> <<>>, metadata_set_items |-> <<>>, results |-> <<>>, batches |-> <<>>]

Init ==
    /\ fixture \in Fixtures
    /\ raw = Written(fixture)
    /\ pc = "load"
    /\ data = <<>>
    /\ ws_i = 0
    /\ geometry = <<>>
    /\ indexes = <<>>
    /\ error = NoError
    /\ gen = GenStart
    /\ stream = <<>>
    /\ expected = 0
    /\ importer = NoImporter

\* utils.Workbook.__init__ / load_worksheets: every worksheet is loaded and cropped
LoadWorksheets ==
    /\ pc = "load"
    /\ IF \E i \in 1 .. Len(raw) : CropFails(raw[i])
       THEN /\ pc' = "failed"
            /\ error' = Crash("UnboundLocalError")
            /\ UNCHANGED <<data, ws_i>>
       ELSE /\ pc' = "parse"
            /\ data' = [i \in 1 .. Len(raw) |-> crop_out_empty_rows_and_columns(raw[i])]
            /\ ws_i' = 1
            /\ UNCHANGED error
    /\ UNCHANGED <<fixture, raw, geometry, indexes, gen, stream, expected, importer>>

\* the loop goes on to the next worksheet after a failure
ParseWorksheet_KeepGoing ==
    /\ pc = "parse"
    /\ ws_i <= Len(data)
    /\ LET p == parse_data(data[ws_i], WsName(ws_i), ObjectDtype(raw[ws_i]))
       IN  /\ data' = [data EXCEPT ![ws_i] = p.data]
           /\ geometry' = Append(geometry, p.geometry)
           /\ indexes' = Append(indexes, p.indexes)
           /\ error' = p.error
           /\ IF p.error # NoError /\ ws_i = Len(data)
              THEN pc' = "failed" /\ UNCHANGED ws_i
              ELSE pc' = "parse" /\ ws_i' = ws_i + 1
    /\ UNCHANGED <<fixture, raw, gen, stream, expected, importer>>

\* one iteration of the loop of AnalysisDatasetWorkbook._parse_data: ws.parse_data()
ParseWorksheet ==
    /\ pc = "parse"
    /\ ws_i <= Len(data)
    /\ LET p == parse_data(data[ws_i], WsName(ws_i), ObjectDtype(raw[ws_i]))
       IN  /\ data' = [data EXCEPT ![ws_i] = p.data]
           /\ geometry' = Append(geometry, p.geometry)
           /\ indexes' = Append(indexes, p.indexes)
           /\ error' = p.error
           /\ IF p.error # NoError
              THEN pc' = "failed" /\ UNCHANGED ws_i
              ELSE pc' = "parse" /\ ws_i' = ws_i + 1
    /\ UNCHANGED <<fixture, raw, gen, stream, expected, importer>>

\* the check is made as soon as the first worksheet is parsed
CheckDuplicates_Early ==
    /\ pc = "parse"
    /\ ws_i > 1
    /\ error' = _check_duplicates(indexes)
    /\ pc' = IF _check_duplicates(indexes) # NoError THEN "failed" ELSE "ready"
    /\ UNCHANGED <<fixture, raw, data, ws_i, geometry, indexes, gen, stream, expected, importer>>

\* the end of AnalysisDatasetWorkbook._parse_data: self._check_duplicates()
CheckDuplicates ==
    /\ pc = "parse"
    /\ ws_i > Len(data)
    /\ error' = _check_duplicates(indexes)
    /\ pc' = IF _check_duplicates(indexes) # NoError THEN "failed" ELSE "ready"
    /\ UNCHANGED <<fixture, raw, data, ws_i, geometry, indexes, gen, stream, expected, importer>>

\* the consumer takes the results generator and reads result_count
OpenResults ==
    /\ pc = "ready"
    /\ pc' = "iter"
    /\ gen' = GenStart
    /\ expected' = result_count(geometry)
    /\ UNCHANGED <<fixture, raw, data, ws_i, geometry, indexes, error, stream, importer>>

\* the generator runs to its next yield
NextResult ==
    /\ pc = "iter"
    /\ Remaining(geometry, gen) # {}
    /\ LET p == NextPoint(geometry, gen)
       IN  /\ gen' = p
           /\ stream' = Append(stream, Result(data[p[1]], geometry[p[1]], WsName(p[1]), p[1], p[2], p[3]))
    /\ UNCHANGED <<fixture, raw, pc, data, ws_i, geometry, indexes, error, expected, importer>>

\* the generator returns
EndResults ==
    /\ pc = "iter"
    /\ Remaining(geometry, gen) = {}
    /\ pc' = "done"
    /\ UNCHANGED <<fixture, raw, data, ws_i, geometry, indexes, error, gen, stream, expected, importer>>

Next ==
    \/ LoadWorksheets
    \/ ParseWorksheet
    \/ CheckDuplicates
    \/ OpenResults
    \/ NextResult
    \/ EndResults

Spec == Init /\ [][Next]_vars

(***************************************************************************)
(* Vocabulary of the properties                                            *)
(***************************************************************************)
\* the cell of worksheet i at (row r, column c) is absent: empty or whitespace only
AbsentAt(i, r, c) == Strip(raw[i][r + 1][c + 1]) \in {PyNone, ""}

\* the A1-style reference of (row r, column c), both zero-based
A1(r, c) ==
    (CASE c = 0 -> "A" [] c = 1 -> "B" [] c = 2 -> "C" [] c = 3 -> "D"
       [] c = 4 -> "E" [] c = 5 -> "F" [] c = 6 -> "G" [] c = 7 -> "H" [] OTHER -> "?")
    \o ToString(r + 1)

\* worksheet i has been through parse_data and its geometry was resolved
Resolved(i) == i <= Len(geometry) /\ geometry[i].error = ""

\* parse_data of worksheet i raised
ParseFailed(i) == pc = "failed" /\ ws_i = i /\ Len(geometry) = i

\* _check_duplicates has run
CheckRan == pc \in {"ready", "iter", "done"} \/ (pc = "failed" /\ Len(data) > 0 /\ ws_i > Len(data))

SubsampleRowsOf(i) == Range(geometry[i].subsamples.rows)
SubsampleColumnsOf(i) == SliceIdx(geometry[i].subsamples.columns, NCols(data[i]))
ResultColumnsOf(i) == Range(geometry[i].result_types.columns)

\* the Subsample Key of row r of worksheet i
SubsampleKeyAt(i, r) == RowSlice(data[i][r + 1], geometry[i].subsamples.columns)

\* the Result-Type/Metadata-Set Key of column c of worksheet i: the result type
\* and the metadata values, each under its metadata type
ParameterKeyAt(i, c) ==
    <<Cell(data[i], 0, c),
      {<<Cell(data[i], r, geometry[i].metadata_types.column), Cell(data[i], r, c)>> :
          r \in Range(geometry[i].metadata_types.rows)}>>

\* the cells <<r, c, r2, c2>> at which worksheets i and j hold the same pair of keys
Collisions(i, j) ==
    {q \in (SubsampleRowsOf(i) \X ResultColumnsOf(i)) \X (SubsampleRowsOf(j) \X ResultColumnsOf(j)) :
        /\ SubsampleKeyAt(i, q[1][1]) = SubsampleKeyAt(j, q[2][1])
        /\ ParameterKeyAt(i, q[1][2]) = ParameterKeyAt(j, q[2][2])}

WorksheetPairs == {p \in (1 .. Len(data)) \X (1 .. Len(data)) : p[1] < p[2]}

\* the collision has a blank cell in at least one of the two worksheets
BlankCollision(i, j, q) == AbsentAt(i, q[1][1], q[1][2]) \/ AbsentAt(j, q[2][1], q[2][2])

IsCrossWorksheetDuplicate(e) == e.type = "DuplicateAnalysisResultParametersError"

\* row r of worksheet i has a value in every subsample column and a registered sample
FullRow(i, r) ==
    /\ \A c \in SubsampleColumnsOf(i) : ~AbsentAt(i, r, c)
    /\ Cell(data[i], r, 0) \in DOMAIN SampleRegistry

\* the rows of worksheet i whose Subsample Key repeats that of an earlier row
DuplicateRows(i) ==
    {r \in SubsampleRowsOf(i) : \E r2 \in SubsampleRowsOf(i) : r2 < r /\ SubsampleKeyAt(i, r2) = SubsampleKeyAt(i, r)}

FirstOccurrence(i, r) == SetMin({r2 \in SubsampleRowsOf(i) : SubsampleKeyAt(i, r2) = SubsampleKeyAt(i, r)})

\* the rows of worksheet i with an absent subsample cell
MissingRows(i) == {r \in SubsampleRowsOf(i) : \E c \in SubsampleColumnsOf(i) : AbsentAt(i, r, c)}

HeadingsOk(i) == NCols(data[i]) >= 2 /\ Cell(data[i], 0, 0) = "SAMPLE" /\ Cell(data[i], 0, 1) = "SUBSAMPLE"

(***************************************************************************)
(* C1                                                                      *)
(***************************************************************************)
\* the width of the subsample columns by induction over the headings:
\* column k extends the range while heading(k) = "SUB" + heading(k - 1)
RECURSIVE InductionWidth(_, _)
InductionWidth(header, k) ==
    IF k < Len(header) /\ header[k + 1] = "SUB" \o header[k]
    THEN InductionWidth(header, k + 1)
    ELSE k

\* C1: subsample_columns is [0, w) with w = 2 + the number of consecutive columns
\* k = 2, 3, ... whose heading is "SUB" + heading(k - 1), and the metadata-type
\* column is column w; SAMPLE, SUBSAMPLE, SUBSUBSAMPLE, METADATA_TYPE gives 3.
C1_HeaderInduction ==
    \A i \in 1 .. Len(geometry) :
        (/\ Resolved(i)
         /\ HeadingsOk(i)
         /\ InductionWidth(data[i][1], 2) < NCols(data[i])
         /\ Cell(data[i], 0, InductionWidth(data[i][1], 2)) = "METADATA_TYPE") =>
            /\ geometry[i].subsamples.columns = Slice(0, InductionWidth(data[i][1], 2))
            /\ geometry[i].metadata_types.column = InductionWidth(data[i][1], 2)

(***************************************************************************)
(* C2                                                                      *)
(***************************************************************************)
\* rows >= 1 of worksheet i with a value in some subsample column
PopulatedRows(i) ==
    {r \in 1 .. (NRows(data[i]) - 1) :
        \E c \in 0 .. (NCols(data[i]) - 1) : c < 2 /\ ~AbsentAt(i, r, c)}

\* C2: for a worksheet of two subsample columns, subsample_rows runs from the
\* first row >= 1 with a non-empty subsample cell through the last row of the
\* grid; without such a row (also in a grid of the header row only) it is the
\* empty range at the end of the grid.
C2_SubsampleRows ==
    \A i \in 1 .. Len(geometry) :
        (geometry[i].error # "TypeError" /\ InductionWidth(data[i][1], 2) = 2) =>
            /\ geometry[i].error = ""
            /\ geometry[i].subsamples.rows =
                   IF PopulatedRows(i) # {}
                   THEN Slice(SetMin(PopulatedRows(i)), NRows(data[i]))
                   ELSE Slice(NRows(data[i]), NRows(data[i]))

(***************************************************************************)
(* C3                                                                      *)
(***************************************************************************)
\* C3: a workbook of one worksheet in the documented layout (two subsample
\* columns) from which the subsamples, the metadata types or the result types
\* were cleared parses without error and yields no record.
C3_AxesCleared ==
    (/\ Len(fixture.sheets) = 1
     /\ fixture.edit = NoEdit
     /\ fixture.sheets[1].w = 2
     /\ (fixture.sheets[1].s = 0 \/ fixture.sheets[1].m = 0 \/ fixture.sheets[1].r = 0))
    => (pc # "failed" /\ stream = <<>>)

(***************************************************************************)
(* C4                                                                      *)
(***************************************************************************)
\* C4: once every worksheet has validated, workbook parsing raises the
\* cross-worksheet duplicate error exactly when two different worksheets hold
\* the same (Subsample Key, Result-Type/Metadata-Set Key) pair, and the error
\* names the two worksheets and the two colliding cells.
C4_CrossWorksheetDuplicate ==
    CheckRan =>
        /\ IsCrossWorksheetDuplicate(error) <=> (\E p \in WorksheetPairs : Collisions(p[1], p[2]) # {})
        /\ IsCrossWorksheetDuplicate(error) =>
               \E p \in WorksheetPairs : \E q \in Collisions(p[1], p[2]) :
                   /\ error.other_worksheet = WsName(p[1])
                   /\ error.worksheet = WsName(p[2])
                   /\ \E k \in 1 .. Len(error.other_cells) : error.other_cells[k] = A1(q[1][1], q[1][2])
                   /\ \E k \in 1 .. Len(error.cells) : error.cells[k] = A1(q[2][1], q[2][2])

\* a workbook whose second worksheet repeats a pair of the first was refused
C4_Witness ==
    /\ CheckRan
    /\ IsCrossWorksheetDuplicate(error)
    /\ Len(data) = 2
    /\ Collisions(1, 2) # {}

(***************************************************************************)
(* C5                                                                      *)
(***************************************************************************)
\* every pair of keys two worksheets share has a blank cell in one of them
OnlyBlankCollisions ==
    /\ \E p \in WorksheetPairs : Collisions(p[1], p[2]) # {}
    /\ \A p \in WorksheetPairs : \A q \in Collisions(p[1], p[2]) : BlankCollision(p[1], p[2], q)

\* C5 as claimed: worksheets that share a Subsample Key and a
\* Result-Type/Metadata-Set Key only where the cell is blank in at least one
\* of them do not raise the cross-worksheet duplicate error.
C5_BlankCellsNotIndexed == (CheckRan /\ OnlyBlankCollisions) => ~IsCrossWorksheetDuplicate(error)

\* C5 as amended: the keys are compared whatever the cells hold; worksheets
\* that share a Subsample Key and a Result-Type/Metadata-Set Key raise the
\* cross-worksheet duplicate error also where the cell at the intersection is
\* blank in one of them.
C5_BlankCellsStillCollide ==
    (CheckRan /\ \E p \in WorksheetPairs : \E q \in Collisions(p[1], p[2]) : BlankCollision(p[1], p[2], q))
        => IsCrossWorksheetDuplicate(error)

\* a workbook was refused whose only shared pairs meet at a blank cell
C5_Witness == CheckRan /\ OnlyBlankCollisions /\ IsCrossWorksheetDuplicate(error)

(***************************************************************************)
(* C6                                                                      *)
(***************************************************************************)
\* the empty-region error for a cell
NonEmptyRegionMessages(cell) ==
    {"Cell " \o cell \o " is expected to be empty; a metadata type exists on the same row",
     "Region left of metadata types is not empty"}

\* C6: a text value written into a cell of the metadata-type rows x subsample
\* columns of an otherwise valid worksheet makes parsing fail with the
\* empty-region error for that cell.
C6_NonEmptyRegion ==
    LET l == fixture.sheets[1]
        e == fixture.edit
    IN  (/\ Len(fixture.sheets) = 1
         /\ l.w = 2 /\ l.s >= 1 /\ l.r >= 1
         /\ e.row \in 2 .. (1 + l.m)
         /\ e.column \in 1 .. l.w
         /\ e.value \in {"S1", "Duchess"}
         /\ Len(geometry) >= 1)
        => /\ ParseFailed(1)
           /\ error.type = "IntegrityError"
           /\ error.worksheet = WsName(1)
           /\ error.message \in NonEmptyRegionMessages(A1(e.row - 1, e.column - 1))

(***************************************************************************)
(* C7                                                                      *)
(***************************************************************************)
\* C7: the records of a workbook come in the order of the worksheets, then of
\* the subsample rows, then of the result-type columns: of two records the one
\* with the lexicographically smaller (worksheet position, row, column) is
\* emitted first, and every record's cell is the A1-style reference of its
\* (row, column) in the worksheet it names.
C7_RecordOrdering ==
    /\ \A a, b \in 1 .. Len(stream) :
           a < b =>
               \/ stream[a].position < stream[b].position
               \/ stream[a].position = stream[b].position /\ stream[a].row < stream[b].row
               \/ /\ stream[a].position = stream[b].position
                  /\ stream[a].row = stream[b].row
                  /\ stream[a].column < stream[b].column
    /\ \A a \in 1 .. Len(stream) :
           /\ stream[a].cell = A1(stream[a].row, stream[a].column)
           /\ stream[a].worksheet = WsName(stream[a].position)
           /\ stream[a].row \in SubsampleRowsOf(stream[a].position)
           /\ stream[a].column \in ResultColumnsOf(stream[a].position)

\* a stream that ran through two worksheets, two rows and two columns
C7_Witness ==
    /\ pc = "done"
    /\ \E a, b, c \in 1 .. Len(stream) :
           /\ stream[a].position < stream[b].position
           /\ stream[a].position = stream[c].position
           /\ stream[a].row < stream[c].row
           /\ \E e \in 1 .. Len(stream) :
                  /\ stream[e].position = stream[a].position
                  /\ stream[e].row = stream[a].row
                  /\ stream[a].column < stream[e].column

(***************************************************************************)
(* C8                                                                      *)
(***************************************************************************)
\* the records of the stream that worksheet i yielded
RecordsOf(i) == {a \in 1 .. Len(stream) : stream[a].position = i}

\* C8: when the stream is exhausted every worksheet has yielded
\* |subsample_rows| x |result_type_columns| records, which is the worksheet's
\* result_count, and the workbook's result_count, read before iterating, is
\* the number of records the stream yielded; it is never exceeded on the way.
C8_CountIdentity ==
    /\ pc \in {"iter", "done"} => Len(stream) <= expected
    /\ pc = "done" =>
           /\ Len(stream) = expected
           /\ \A i \in 1 .. Len(geometry) :
                  /\ Cardinality(RecordsOf(i)) = Cardinality(SubsampleRowsOf(i)) * Cardinality(ResultColumnsOf(i))
                  /\ Cardinality(RecordsOf(i)) = worksheet_result_count(geometry[i])

\* an exhausted stream of two worksheets that both yielded records
C8_Witness ==
    /\ pc = "done"
    /\ Len(geometry) = 2
    /\ RecordsOf(1) # {}
    /\ RecordsOf(2) # {}
    /\ Cardinality(RecordsOf(1)) # Cardinality(RecordsOf(2))

(***************************************************************************)
(* C9                                                                      *)
(***************************************************************************)
\* the message of the duplicate-subsample error for worksheet rows row and other
DuplicateSubsampleMessage(i, row, other) ==
    "Row " \o ToString(row) \o " violates unique constraint on columns: "
        \o TupleRepr(RowSlice(data[i][1], geometry[i].subsamples.columns))
        \o " (duplicate of row " \o ToString(other) \o ")"

\* C9: a subsample row whose Subsample Key equals that of an earlier row of the
\* worksheet fails with the duplicate-subsample error, which names the worksheet
\* row of the duplicate and, as "duplicate of", the worksheet row of the first
\* occurrence, both numbered from 1 as the worksheet numbers its rows.
C9_DuplicateSubsample ==
    \A i \in 1 .. Len(geometry) :
        (/\ Resolved(i)
         /\ HeadingsOk(i)
         /\ DuplicateRows(i) # {}
         /\ \A r \in SubsampleRowsOf(i) : r <= SetMin(DuplicateRows(i)) => FullRow(i, r)) =>
            LET r == SetMin(DuplicateRows(i))
            IN  /\ ParseFailed(i)
                /\ error.type = "IntegrityError"
                /\ error.worksheet = WsName(i)
                /\ error.message = DuplicateSubsampleMessage(i, r + 1, FirstOccurrence(i, r) + 1)

(***************************************************************************)
(* C10                                                                     *)
(***************************************************************************)
\* the first absent subsample cell of row r of worksheet i
FirstMissingColumn(i, r) == SetMin({c \in SubsampleColumnsOf(i) : AbsentAt(i, r, c)})

\* rows >= 1 of worksheet i with a value in some subsample column
RowsWithSubsampleValue(i) ==
    {r \in 1 .. (NRows(data[i]) - 1) : \E c \in SubsampleColumnsOf(i) : ~AbsentAt(i, r, c)}

\* subsample_rows of worksheet i starts at its first row with a subsample value
StartsAtFirstSubsample(i) ==
    /\ RowsWithSubsampleValue(i) # {}
    /\ geometry[i].subsamples.rows.start = SetMin(RowsWithSubsampleValue(i))

\* C10: every row of subsample_rows needs a value in every subsample column; the
\* first row with an absent subsample cell (empty or whitespace only) fails
\* with the missing-value error naming the column and the worksheet row.
C10_MissingSubsampleValue ==
    \A i \in 1 .. Len(geometry) :
        (/\ Resolved(i)
         /\ HeadingsOk(i)
         /\ StartsAtFirstSubsample(i)
         /\ MissingRows(i) # {}
         /\ \A r \in SubsampleRowsOf(i) : r < SetMin(MissingRows(i)) => (FullRow(i, r) /\ r \notin DuplicateRows(i))) =>
            LET r == SetMin(MissingRows(i))
            IN  /\ ParseFailed(i)
                /\ error.type = "IntegrityError"
                /\ error.worksheet = WsName(i)
                /\ error.message = "Empty value for column " \o Cell(data[i], 0, FirstMissingColumn(i, r))
                                       \o " of row " \o ToString(r + 1)

(***************************************************************************)
(* C11                                                                     *)
(***************************************************************************)
\* text occurs in message
Mentions(message, text) ==
    \E k \in 1 .. (Len(message) - Len(text) + 1) : SubSeq(message, k, k + Len(text) - 1) = text

\* the subsample rows of worksheet i with every subsample cell present and a
\* Sample Name the registry does not hold
UnknownSampleRows(i) ==
    {r \in SubsampleRowsOf(i) :
        /\ \A c \in SubsampleColumnsOf(i) : ~AbsentAt(i, r, c)
        /\ Cell(data[i], r, 0) \notin DOMAIN SampleRegistry}

\* worksheet i has an unknown-sample row and every row before it is a valid subsample
FirstUnknownSampleRow(i, r) ==
    /\ Resolved(i)
    /\ HeadingsOk(i)
    /\ UnknownSampleRows(i) # {}
    /\ r = SetMin(UnknownSampleRows(i))
    /\ \A r2 \in SubsampleRowsOf(i) : r2 < r => (FullRow(i, r2) /\ r2 \notin DuplicateRows(i))

UnknownSampleMessage(i, r) ==
    "Value for column " \o Cell(data[i], 0, 0) \o " of row " \o ToString(r + 1) \o " does not exist in SAMPLES.xlsx"

ResultTypeEmptied ==
    /\ Len(fixture.sheets) = 1
    /\ fixture.sheets[1].w = 2
    /\ fixture.sheets[1].s >= 1
    /\ fixture.edit.row = 1
    /\ fixture.edit.column > fixture.sheets[1].w + 1
    /\ fixture.edit.value = PyNone

\* C12: an empty heading of a result-type column, the last one included, fails
\* with the missing-result-type error naming that header cell: the letter of
\* the column and row 1 (D1 for the fourth column).
C12_MissingResultType ==
    (ResultTypeEmptied /\ Len(geometry) >= 1) =>
        /\ ParseFailed(1)
        /\ error.type = "IntegrityError"
        /\ error.worksheet = WsName(1)
        /\ Mentions(error.message, A1(0, fixture.edit.column - 1))

(***************************************************************************)
(* C13                                                                     *)
(***************************************************************************)
\* the result-type columns of worksheet i whose Result-Type/Metadata-Set Key
\* repeats that of an earlier column
DuplicateColumns(i) ==
    {c \in ResultColumnsOf(i) : \E c2 \in ResultColumnsOf(i) : c2 < c /\ ParameterKeyAt(i, c2) = ParameterKeyAt(i, c)}

\* the fixture is one worksheet of two subsample columns, unchanged but for
\* the heading of its second result type, which repeats the first
ResultTypeRepeated ==
    /\ Len(fixture.sheets) = 1
    /\ fixture.sheets[1].w = 2
    /\ fixture.sheets[1].r >= 2
    /\ fixture.sheets[1].s >= 1
    /\ fixture.edit = [row |-> 1, column |-> 5, value |-> "R1"]

\* C13: a result-type column whose result type and metadata values equal those
\* of an earlier column of the worksheet fails with the duplicate error, a
\* validation error of that worksheet naming the column.
C13_DuplicateResultTypeMetadataSet ==
    (ResultTypeRepeated /\ Len(geometry) >= 1) =>
        /\ DuplicateColumns(1) = {4}
        /\ ParseFailed(1)
        /\ error.type = "IntegrityError"
        /\ error.worksheet = WsName(1)
        /\ Mentions(error.message, "column " \o xlcolref(4))

(***************************************************************************)
(* C14                                                                     *)
(***************************************************************************)
\* the fixture is one worksheet of two subsample columns with subsamples, one
\* of whose metadata types was emptied or made to repeat the first
MetadataTypeSpoiled ==
    /\ Len(fixture.sheets) = 1
    /\ fixture.sheets[1].w = 2
    /\ fixture.sheets[1].s >= 1
    /\ fixture.edit.column = 3
    /\ fixture.edit.row \in 2 .. (1 + fixture.sheets[1].m)
    /\ \/ fixture.edit.value = PyNone
       \/ fixture.edit.value = "M1" /\ fixture.edit.row = 3

\* C14: a worksheet with an empty metadata-type cell, or with one that repeats
\* an earlier metadata-type row, is not accepted: parsing fails with a
\* validation error of that worksheet naming the offending row.
C14_MetadataTypes ==
    (MetadataTypeSpoiled /\ Len(geometry) >= 1) =>
        /\ ParseFailed(1)
        /\ error.type = "IntegrityError"
        /\ error.worksheet = WsName(1)
        /\ \/ Mentions(error.message, "row " \o ToString(fixture.edit.row))
           \/ Mentions(error.message, A1(fixture.edit.row - 1, 2))

(***************************************************************************)
(* C15                                                                     *)
(***************************************************************************)
\* the fixture is one worksheet of two subsample columns with subsamples whose
\* METADATA_TYPE heading was emptied or overwritten
MetadataTypeHeadingSpoiled ==
    /\ Len(fixture.sheets) = 1
    /\ fixture.sheets[1].w = 2
    /\ fixture.sheets[1].s >= 1
    /\ fixture.edit.row = 1
    /\ fixture.edit.column = 3
    /\ fixture.edit.value \in {PyNone, "M1", "Duchess"}

\* C15: when the heading of the column after the two subsample columns is not
\* METADATA_TYPE, or the grid has no such column, parsing fails with the
\* heading-mismatch validation error of that worksheet naming cell C1.
C15_MetadataTypeHeading ==
    (MetadataTypeHeadingSpoiled /\ pc # "load") =>
        /\ Len(geometry) >= 1 => ParseFailed(1)
        /\ pc = "failed" =>
               /\ error.type = "IntegrityError"
               /\ error.worksheet = WsName(1)
               /\ Mentions(error.message, A1(0, 2))
               /\ Mentions(error.message, "METADATA_TYPE")

(***************************************************************************)
(* C16                                                                     *)
(***************************************************************************)
\* the fixture is one worksheet whose SAMPLE or SUBSAMPLE heading was emptied
\* or overwritten
SubsampleHeadingSpoiled ==
    /\ Len(fixture.sheets) = 1
    /\ fixture.edit.row = 1
    /\ fixture.edit.column \in {1, 2}

\* C16: when cell A1 is not SAMPLE, or cell B1 is not SUBSAMPLE, parsing fails
\* with the heading-mismatch validation error of that worksheet naming the
\* expected heading and the cell.
C16_SubsampleHeadings ==
    (SubsampleHeadingSpoiled /\ Len(geometry) >= 1) =>
        /\ ParseFailed(1)
        /\ error.type = "IntegrityError"
        /\ error.worksheet = WsName(1)
        /\ error.message = IF fixture.edit.column = 1 THEN "Cell A1 must be SAMPLE"
                           ELSE "Cell B1 must be SUBSAMPLE"

(***************************************************************************)
(* C17                                                                     *)
(***************************************************************************)
\* the (metadata type, value) entries of column c of worksheet i whose value is present
PresentMetadata(i, c) ==
    {<<Cell(data[i], r, geometry[i].metadata_types.column), Cell(data[i], r, c)>> :
        r \in {r2 \in Range(geometry[i].metadata_types.rows) : ~AbsentAt(i, r2, c)}}

\* C17: the Metadata Set of every emitted record holds exactly the (Metadata
\* Type, value) entries of its column whose value is present; a metadata type
\* whose value is absent in that column does not appear, and without
\* metadata-type rows the Metadata Set is empty.
C17_RecordMetadata ==
    \A a \in 1 .. Len(stream) :
        {stream[a].metadata_set[k] : k \in 1 .. Len(stream[a].metadata_set)}
            = PresentMetadata(stream[a].position, stream[a].column)

(***************************************************************************)
(* C18                                                                     *)
(***************************************************************************)
\* the records of the stream for cell (r, c) of worksheet i
RecordsAt(i, r, c) ==
    {a \in 1 .. Len(stream) : stream[a].position = i /\ stream[a].row = r /\ stream[a].column = c}

WhitespaceOnlyEdit ==
    /\ Len(fixture.sheets) = 1
    /\ fixture.edit # NoEdit
    /\ fixture.edit.value = " "
    /\ SheetOf(fixture.sheets[1])[fixture.edit.row][fixture.edit.column] = PyNone

\* what parsing gives for the worksheet of the fixture without the edit
WithoutEdit ==
    LET loaded == SheetOf(fixture.sheets[1])
    IN  parse_data(crop_out_empty_rows_and_columns(loaded), WsName(1), ObjectDtype(loaded))

\* C19: a whitespace-only cell is absent and every later check treats it as
\* absent: a worksheet that differs from a valid one only by whitespace in an
\* empty cell parses to the same geometry and is accepted as well.
C19_GridNormalForm ==
    (WhitespaceOnlyEdit /\ WithoutEdit.error = NoError /\ Len(geometry) >= 1) =>
        /\ geometry[1] = WithoutEdit.geometry
        /\ error = WithoutEdit.error

(***************************************************************************)
(* C20                                                                     *)
(***************************************************************************)
\* C20: every error raised while an analysis workbook is parsed (here: by the
\* checks that run once the geometry of the worksheet is resolved) is a
\* structured validation error carrying the workbook name and the name of the
\* worksheet in which the violation was found.
C20_StructuredErrors ==
    (pc = "failed" /\ Len(geometry) >= 1 /\ Resolved(Len(geometry))) =>
        /\ error.type \in {"IntegrityError", "DuplicateAnalysisResultParametersError"}
        /\ {"workbook", "worksheet"} \subseteq error.kwargs
        /\ error.worksheet \in {WsName(i) : i \in 1 .. Len(raw)}

(***************************************************************************)
(* BasicDatasetWorkbook: DOCUMENT.xlsx, SURVEYS.xlsx, SAMPLES.xlsx         *)
(***************************************************************************)
MaxMissingColumns == 2
MaxDataRows == 2

DocumentsMeta ==
    [workbook_name |-> "DOCUMENT.xlsx", worksheet_name |-> "DOCUMENT",
     columns |-> <<"RECOMMENDED_CITATION">>,
     unique_constraints |-> << <<"RECOMMENDED_CITATION">> >>,
     foreign_key_constraints |-> <<>>,
     min_rows |-> 1, max_rows |-> 1]

SurveysMeta ==
    [workbook_name |-> "SURVEYS.xlsx", worksheet_name |-> "SURVEYS",
     columns |-> <<"TITLE", "ORGANIZATION", "YEAR_BEGIN", "YEAR_END", "PARTY_LEADER", "DESCRIPTION",
                   "GSC_CATALOG_NUMBER">>,
     unique_constraints |-> << <<"TITLE">> >>,
     foreign_key_constraints |-> <<>>,
     min_rows |-> 1, max_rows |-> 0]

SamplesMeta ==
    [workbook_name |-> "SAMPLES.xlsx", worksheet_name |-> "SAMPLES",
     columns |-> <<"SURVEY_TITLE", "STATION", "EARTHMAT", "SAMPLE", "LAT_NAD27", "LONG_NAD27", "LAT_NAD83",
                   "LONG_NAD83", "X_NAD27", "Y_NAD27", "X_NAD83", "Y_NAD83", "ZONE", "EARTHMAT_TYPE", "STATUS">>,
     unique_constraints |-> << <<"SURVEY_TITLE", "STATION", "EARTHMAT", "SAMPLE">> >>,
     foreign_key_constraints |-> << <<"SURVEY_TITLE">> >>,
     min_rows |-> 1, max_rows |-> 0]

Metas == {DocumentsMeta, SurveysMeta, SamplesMeta}

SeqToSet(t) == {t[k] : k \in 1 .. Len(t)}

\* the index ('TITLE',) of dataset.surveys the foreign key of SAMPLES.xlsx is looked up in
SurveyTitles == {"v1"}

\* column_indices[x]: the zero-based index of the heading x, or -1 for a KeyError
ColumnIndex(header, x) ==
    IF x \in SeqToSet(header) THEN SetMax({k \in 1 .. Len(header) : header[k] = x}) - 1 ELSE -1

\* tuple(row[column_indices[x]] for x in constraint_columns)
RowKey(header, row, constraint_columns) ==
    [k \in 1 .. Len(constraint_columns) |-> row[ColumnIndex(header, constraint_columns[k]) + 1]]

\* the loop over the data rows for one unique constraint
RECURSIVE UniqueRowsLoop(_, _, _, _)
UniqueRowsLoop(d, constraint_columns, index, row_idx) ==
    IF row_idx >= NRows(d) THEN [error |-> NoError, index |-> index]
    ELSE IF \E k \in 1 .. Len(constraint_columns) : ColumnIndex(d[1], constraint_columns[k]) = -1
    THEN [error |-> Crash("KeyError"), index |-> index]
    ELSE LET row_key == RowKey(d[1], d[row_idx + 1], constraint_columns)
         IN  IF DictGetTruthy(index, row_key)
             THEN [error |-> IntegrityError("Row " \o ToString(row_idx)
                                                \o " violates unique constraint on columns: "
                                                \o TupleRepr(constraint_columns) \o " (duplicate of row "
                                                \o ToString(index[row_key]) \o ")", KwDataset),
                   index |-> index]
             ELSE UniqueRowsLoop(d, constraint_columns, DictSet(index, row_key, row_idx), row_idx + 1)

\* every meta declares one unique constraint
_create_indexes(meta, d) == UniqueRowsLoop(d, meta.unique_constraints[1], EmptyDict, 1)

\* errors.MissingHeadingsError asserts "column_indexes ^ column_xl_indexes" on a
\* list and None; errors.MissingColumnsError and errors.ExtraColumnsError name
\* the classes defined last in the module, plain Exceptions that take no
\* keyword argument
_validate_column_headings(meta, d, extra_columns_ok) ==
    LET given_columns == SeqToSet(d[1])
        expected_columns == SeqToSet(meta.columns)
    IN  IF PyNone \in given_columns THEN Crash("TypeError")
        ELSE IF expected_columns \ given_columns # {} THEN Crash("TypeError")
        ELSE IF ~extra_columns_ok /\ given_columns \ expected_columns # {} THEN Crash("TypeError")
        ELSE NoError

count(d) == NRows(d) - 1

_validate_counts(meta, d) ==
    LET max_rows_str == IF meta.max_rows = 0 THEN "unlimited" ELSE ToString(meta.max_rows)
        tail == ToString(count(d)) \o " (min is " \o ToString(meta.min_rows) \o " and max is "
                    \o max_rows_str \o ")"
    IN  IF meta.min_rows # 0 /\ count(d) < meta.min_rows
        THEN IntegrityError("Too few rows: " \o tail, KwWorkbook)
        ELSE IF meta.max_rows # 0 /\ count(d) > meta.max_rows
        THEN IntegrityError("Too many rows: " \o tail, KwWorkbook)
        ELSE NoError

KwWorkbookName == {"workbook_name", "worksheet_name"}

\* the loop over the data rows; every foreign key names one column and the
\* index ('TITLE',) of dataset.surveys
RECURSIVE ForeignKeyRowsLoop(_, _, _)
ForeignKeyRowsLoop(d, fk_column_names, row_idx) ==
    IF row_idx >= NRows(d) THEN NoError
    ELSE IF ColumnIndex(d[1], fk_column_names[1]) = -1 THEN Crash("KeyError")
    ELSE IF RowKey(d[1], d[row_idx + 1], fk_column_names)[1] \notin SurveyTitles
    THEN IntegrityError("Row " \o ToString(row_idx) \o " violates foreign key constraint on columns: "
                            \o TupleRepr(fk_column_names), KwWorkbookName)
    ELSE ForeignKeyRowsLoop(d, fk_column_names, row_idx + 1)

_validate_foreign_key_constraints(meta, d) ==
    IF meta.foreign_key_constraints = <<>> THEN NoError
    ELSE ForeignKeyRowsLoop(d, meta.foreign_key_constraints[1], 1)

(***************************************************************************)
(* Fixtures of the basic workbooks                                         *)
(***************************************************************************)
ExtraColumn == "EXTRA"

\* the headings the fixture writes: the expected columns without the dropped
\* ones, in order, then the extra one
RECURSIVE Without(_, _)
Without(t, dropped) ==
    IF t = <<>> THEN <<>>
    ELSE (IF t[1] \in dropped THEN <<>> ELSE <<t[1]>>) \o Without(Tail(t), dropped)

BasicHeader(f) == Without(f.meta.columns, f.missing) \o (IF f.extra THEN <<ExtraColumn>> ELSE <<>>)

\* data row i: "v<i>" in every column, the survey title "v1" unless the row is
\* the orphan; a repeated row copies the row above
BasicValue(f, i, heading) ==
    IF heading = "SURVEY_TITLE" THEN (IF f.orphan /\ i = f.rows THEN "v2" ELSE "v1")
    ELSE IF f.repeat /\ i > 1 THEN "v" \o ToString(i - 1)
    ELSE "v" \o ToString(i)

\* the worksheet the fixture writes, followed by a blank row and column when padded
BasicWritten(f) ==
    LET header == BasicHeader(f)
        width == Len(header) + (IF f.padded THEN 1 ELSE 0)
        height == 1 + f.rows + (IF f.padded THEN 1 ELSE 0)
    IN  [r \in 1 .. height |->
            [c \in 1 .. width |->
                IF c > Len(header) \/ r > 1 + f.rows THEN PyNone
                ELSE IF r = 1 THEN header[c]
                ELSE BasicValue(f, r - 1, header[c])]]

MissingSets(meta) ==
    {s \in SUBSET SeqToSet(meta.columns) : Cardinality(s) <= MaxMissingColumns
                                           /\ Cardinality(s) < Len(meta.columns)}

BasicFixtures ==
    {f \in UNION {[meta : {m}, missing : MissingSets(m), rows : 0 .. MaxDataRows, repeat : BOOLEAN,
                   orphan : BOOLEAN, extra : BOOLEAN, padded : BOOLEAN, extra_columns_ok : BOOLEAN] :
                      m \in Metas} :
        /\ f.repeat => f.rows >= 2
        /\ f.orphan => f.rows >= 1 /\ f.meta = SamplesMeta
        /\ f.extra_columns_ok => f.extra}

(***************************************************************************)
(* BasicDatasetWorkbook.__init__                                           *)
(***************************************************************************)
InitBasic ==
    /\ fixture \in BasicFixtures
    /\ raw = BasicWritten(fixture)
    /\ pc = "load"
    /\ data = <<>>
    /\ ws_i = 0
    /\ geometry = <<>>
    /\ indexes = EmptyDict
    /\ error = NoError
    /\ gen = GenStart
    /\ stream = <<>>
    /\ expected = 0
    /\ importer = NoImporter

BasicStep(stage, outcome, next_stage) ==
    /\ pc = stage
    /\ error' = outcome
    /\ pc' = IF outcome = NoError THEN next_stage ELSE "failed"

\* utils.Workbook.__init__: the worksheet is loaded and cropped
LoadWorkbook ==
    /\ pc = "load"
    /\ pc' = "indexes"
    /\ data' = crop_out_empty_rows_and_columns(raw)
    /\ UNCHANGED <<fixture, raw, ws_i, geometry, indexes, error, gen, stream, expected, importer>>

CreateIndexes ==
    /\ BasicStep("indexes", _create_indexes(fixture.meta, data).error, "headings")
    /\ indexes' = _create_indexes(fixture.meta, data).index
    /\ UNCHANGED <<fixture, raw, data, ws_i, geometry, gen, stream, expected, importer>>

ValidateColumnHeadings ==
    /\ BasicStep("headings", _validate_column_headings(fixture.meta, data, fixture.extra_columns_ok), "counts")
    /\ UNCHANGED <<fixture, raw, data, ws_i, geometry, indexes, gen, stream, expected, importer>>

ValidateCounts ==
    /\ BasicStep("counts", _validate_counts(fixture.meta, data), "foreign_keys")
    /\ UNCHANGED <<fixture, raw, data, ws_i, geometry, indexes, gen, stream, expected, importer>>

ValidateForeignKeyConstraints ==
    /\ BasicStep("foreign_keys", _validate_foreign_key_constraints(fixture.meta, data), "valid")
    /\ UNCHANGED <<fixture, raw, data, ws_i, geometry, indexes, gen, stream, expected, importer>>

NextBasic ==
    \/ LoadWorkbook
    \/ CreateIndexes
    \/ ValidateColumnHeadings
    \/ ValidateCounts
    \/ ValidateForeignKeyConstraints

SpecBasic == InitBasic /\ [][NextBasic]_vars

\* C21: a worksheet of DOCUMENT.xlsx, SURVEYS.xlsx or SAMPLES.xlsx that lacks
\* expected columns is rejected with a validation error whose message names
\* the missing columns
C21_MissingColumns ==
    (pc \notin {"load", "indexes", "headings"} /\ fixture.missing # {})
        => /\ pc = "failed"
           /\ error.type = "IntegrityError"
           /\ \A x \in fixture.missing : Mentions(error.message, x)

(***************************************************************************)
(* Worksheets with several violations                                      *)
(***************************************************************************)
MaxDefects == 2

\* the worksheets the violations are put into: every row and column range populated in full
DefectLayouts == {Layout(w, MaxMetadataTypes, MaxResultTypes, MaxSubsamples) : w \in 2 .. MaxSubsampleColumns}

Defect(kind, stage, row, column, value) ==
    [kind |-> kind, stage |-> stage, row |-> row, column |-> column, value |-> value]

\* the modifications of the error tests, as edits of one cell (1-based row and
\* column) with the stage of parse_data that is to find them
DefectsOf(l) ==
    LET first_subsample_row == 1 + l.m + 1
    IN  {Defect("sample heading", 1, 1, 1, "Duchess"), Defect("subsample heading", 1, 1, 2, "Duchess")}
        \cup {Defect("unknown sample", 1, first_subsample_row + i, 1, "Duchess") : i \in 0 .. (l.s - 1)}
        \cup {Defect("empty subsample", 1, first_subsample_row + i, 2, PyNone) : i \in 0 .. (l.s - 1)}
        \cup {Defect("duplicate subsample", 1, first_subsample_row + 1, 1, "S1")}
        \cup {Defect("metadata type heading", 2, 1, l.w + 1, "Duchess")}
        \cup {Defect("empty metadata type", 2, 1 + i, l.w + 1, PyNone) : i \in 1 .. l.m}
        \cup {Defect("duplicate metadata type", 2, 1 + l.m, l.w + 1, "M1")}
        \cup {Defect("empty result type", 3, 1, l.w + 1 + i, PyNone) : i \in 1 .. l.r}
        \cup {Defect("duplicate result type", 3, 1, l.w + 1 + l.r, "R1")}
        \cup {Defect("non-empty region", 4, first_subsample_row + i, l.w + 1, "M1") : i \in 0 .. (l.s - 1)}

DefectSets(l) ==
    {D \in SUBSET DefectsOf(l) :
        /\ Cardinality(D) <= MaxDefects
        /\ \A x, y \in D : (x.row = y.row /\ x.column = y.column) => x = y}

DefectFixtures == UNION {{[sheets |-> <<l>>, edit |-> NoEdit, defects |-> D] : D \in DefectSets(l)} :
                            l \in DefectLayouts}

WrittenWithDefects(f) ==
    << [r \in 1 .. NRows(SheetOf(f.sheets[1])) |->
           [c \in 1 .. NCols(SheetOf(f.sheets[1])) |->
               IF \E x \in f.defects : x.row = r /\ x.column = c
               THEN (CHOOSE x \in f.defects : x.row = r /\ x.column = c).value
               ELSE SheetOf(f.sheets[1])[r][c]]] >>

InitDefects ==
    /\ fixture \in DefectFixtures
    /\ raw = WrittenWithDefects(fixture)
    /\ pc = "load"
    /\ data = <<>>
    /\ ws_i = 0
    /\ geometry = <<>>
    /\ indexes = <<>>
    /\ error = NoError
    /\ gen = GenStart
    /\ stream = <<>>
    /\ expected = 0
    /\ importer = NoImporter

SpecDefects == InitDefects /\ [][Next]_vars

\* the stage an error belongs to, by the wording of its message
StageOfError(e) ==
    IF e.type # "IntegrityError" THEN 0
    ELSE IF Mentions(e.message, "METADATA_TYPE") THEN 2
    ELSE IF Mentions(e.message, "result type") THEN 3
    ELSE IF Mentions(e.message, "to be empty") THEN 4
    ELSE 1

\* a violation no other violation of the worksheet comes before: earliest
\* stage, then earliest row (stages 1, 2, 4) or column (stage 3)
Place(x) == IF x.stage = 3 THEN x.column ELSE x.row

Earliest(D) == {x \in D : \A y \in D : x.stage < y.stage \/ (x.stage = y.stage /\ Place(x) <= Place(y))}

\* the text by which the error of the violation names its row
RowText(x) ==
    IF x.kind \in {"unknown sample", "empty subsample"} THEN " of row " \o ToString(x.row)
    ELSE IF x.kind = "empty metadata type" THEN " on row " \o ToString(x.row)
    ELSE ""

\* C22: a worksheet with violations of several kinds fails with the error of
\* the earliest stage (subsample rows, metadata types, result types, empty
\* region) and, within the stage, of the earliest row
C22_EarliestStage ==
    (Len(geometry) >= 1 /\ Cardinality({x.kind : x \in fixture.defects}) >= 2)
        => \A x \in Earliest(fixture.defects) :
               /\ pc = "failed"
               /\ StageOfError(error) = x.stage
               /\ Mentions(error.message, RowText(x))

(***************************************************************************)
(* C23                                                                     *)
(***************************************************************************)
\* worksheet i of the source passes parse_data
Validates(i) ==
    ~CropFails(raw[i])
    /\ parse_data(crop_out_empty_rows_and_columns(raw[i]), WsName(i), ObjectDtype(raw[i])).error = NoError

\* C23: the cross-worksheet duplicate check runs only after every worksheet
\* of the workbook has been validated successfully, and no record is emitted
\* before that check has succeeded for the whole workbook
C23_Barrier ==
    /\ CheckRan => (Len(geometry) = Len(raw) /\ \A i \in 1 .. Len(raw) : Validates(i))
    /\ Len(stream) > 0 =>
           /\ pc \in {"iter", "done"}
           /\ error = NoError
           /\ Len(geometry) = Len(raw)
           /\ \A p \in WorksheetPairs : Collisions(p[1], p[2]) = {}

\* records are being emitted from a workbook of two worksheets
C23_Witness ==
    /\ pc = "iter"
    /\ Len(raw) = 2
    /\ Len(stream) > 0

(***************************************************************************)
(* C24                                                                     *)
(***************************************************************************)
DefectKinds == {x.kind : x \in fixture.defects}

\* C24: the headings are verified before anything else of the worksheet is
\* looked at: a wrong A1 or B1 fails with the heading error for that cell
\* whatever the rest of the header row and the rows hold, and a wrong heading
\* of the metadata-type column fails with its heading error whatever violation
\* the subsample rows hold
C24_HeadingsFirst ==
    Len(geometry) >= 1 =>
        /\ "sample heading" \in DefectKinds =>
               (pc = "failed" /\ error.type = "IntegrityError" /\ Mentions(error.message, "A1 must be SAMPLE"))
        /\ ("subsample heading" \in DefectKinds /\ "sample heading" \notin DefectKinds) =>
               (pc = "failed" /\ error.type = "IntegrityError" /\ Mentions(error.message, "B1 must be SUBSAMPLE"))
        /\ ("metadata type heading" \in DefectKinds /\ DefectKinds \cap {"sample heading", "subsample heading"} = {}) =>
               (pc = "failed" /\ error.type = "IntegrityError" /\ Mentions(error.message, "must be METADATA_TYPE"))

(***************************************************************************)
(* Workbooks of two worksheets, each with a modification                   *)
(***************************************************************************)
\* a cell emptied or given a value that is no sample, type or heading
LateEditsOf(l) == {e \in EditsOf(l) : e.value \in {PyNone, "Duchess"}}

LateFixtures ==
    UNION {{[sheets |-> <<l, l2>>, edit |-> e, late |-> e2] : e \in LateEditsOf(l), e2 \in LateEditsOf(l2)} :
              <<l, l2>> \in FollowerLayouts \X FollowerLayouts}

WrittenLate(f) ==
    IF f.late = NoEdit THEN Written(f)
    ELSE [Written(f) EXCEPT ![2][f.late.row][f.late.column] = f.late.value]

InitLate ==
    /\ fixture \in LateFixtures
    /\ raw = WrittenLate(fixture)
    /\ pc = "load"
    /\ data = <<>>
    /\ ws_i = 0
    /\ geometry = <<>>
    /\ indexes = <<>>
    /\ error = NoError
    /\ gen = GenStart
    /\ stream = <<>>
    /\ expected = 0
    /\ importer = NoImporter

SpecLate == InitLate /\ [][Next]_vars

(***************************************************************************)
(* C25                                                                     *)
(***************************************************************************)
\* the worksheets of the source that do not pass their own validation
Failing == {i \in 1 .. Len(raw) : ~Validates(i)}

\* C25: once parsing has reached the first worksheet that fails its
\* validation the workbook is refused with the error of that worksheet, no
\* later worksheet is validated, and no record of any worksheet is emitted
C25_FailureAbortsWorkbook ==
    LET failing == Failing
        first == SetMin(failing)
    IN  /\ pc = "failed" => stream = <<>>
        /\ failing # {} => (stream = <<>> /\ pc \notin {"ready", "iter", "done"})
        /\ (failing # {} /\ Len(geometry) >= first) =>
               /\ pc = "failed"
               /\ ws_i = first
               /\ Len(geometry) = first
               /\ error = parse_data(crop_out_empty_rows_and_columns(raw[first]), WsName(first),
                                     ObjectDtype(raw[first])).error

\* the first worksheet validated and the second was refused
C25_Witness ==
    /\ pc = "failed"
    /\ Failing = {2}
    /\ Len(geometry) = 2
    /\ stream = <<>>

(***************************************************************************)
(* C26                                                                     *)
(***************************************************************************)
\* the modification puts a value into the metadata-type column on a subsample row
BelowMetadataTypes ==
    /\ fixture.edit # NoEdit
    /\ fixture.edit.row > 1 + fixture.sheets[1].m
    /\ fixture.edit.column = fixture.sheets[1].w + 1
    /\ Strip(fixture.edit.value) \notin {PyNone, ""}

\* C26: a non-empty cell of the metadata-type column on a row that holds a
\* subsample makes parsing fail with a validation error that names the cell
C26_MetadataTypeColumnEmpty ==
    (BelowMetadataTypes /\ Len(geometry) >= 1) =>
        /\ pc = "failed"
        /\ ws_i = 1
        /\ error.type = "IntegrityError"
        /\ Mentions(error.message, A1(fixture.edit.row - 1, fixture.edit.column - 1))

(***************************************************************************)
(* C27                                                                     *)
(***************************************************************************)
\* worksheet i has passed its validation
Accepted(i) == i <= Len(geometry) /\ i < ws_i

\* the sets are pairwise disjoint and their union is 0 .. n - 1
Partitions(sets, n) ==
    /\ UNION {sets[k] : k \in 1 .. Len(sets)} = 0 .. (n - 1)
    /\ \A j, k \in 1 .. Len(sets) : j # k => sets[j] \cap sets[k] = {}

\* C27: in every accepted worksheet the subsample columns [0, w) with w >= 2,
\* the metadata-type column w and the result type columns [w + 1, ncols)
\* partition the columns, and the header row 0, the metadata-type rows [1, s)
\* and the subsample rows [s, nrows) partition the rows
C27_GeometryPartition ==
    \A i \in 1 .. Len(geometry) :
        Accepted(i) =>
            LET g == geometry[i]
                w == g.subsamples.columns.stop
                s == g.subsamples.rows.start
            IN  /\ w >= 2
                /\ g.subsamples.columns = Slice(0, w)
                /\ g.metadata_types.column = w
                /\ g.result_types.columns = Slice(w + 1, NCols(data[i]))
                /\ Partitions(<<Range(g.subsamples.columns), {g.metadata_types.column},
                                Range(g.result_types.columns)>>, NCols(data[i]))
                /\ s >= 1
                /\ g.result_types.row = 0
                /\ g.metadata_types.rows = Slice(1, s)
                /\ g.subsamples.rows = Slice(s, NRows(data[i]))
                /\ Partitions(<<{g.result_types.row}, Range(g.metadata_types.rows), Range(g.subsamples.rows)>>,
                              NRows(data[i]))
                /\ g.metadata_sets = [rows |-> g.metadata_types.rows, columns |-> g.result_types.columns]
                /\ g.results = [rows |-> g.subsamples.rows, columns |-> g.result_types.columns]

\* an accepted worksheet in which every range has two members
C27_Witness ==
    /\ Accepted(1)
    /\ Cardinality(Range(geometry[1].subsamples.columns)) = 2
    /\ Cardinality(Range(geometry[1].result_types.columns)) = 2
    /\ Cardinality(Range(geometry[1].metadata_types.rows)) = 2
    /\ Cardinality(Range(geometry[1].subsamples.rows)) = 2

(***************************************************************************)
(* C28                                                                     *)
(***************************************************************************)
\* the modification puts a value into the SUBSAMPLE column of a metadata-type row
ValueLeftOfMetadataTypes ==
    /\ fixture.edit # NoEdit
    /\ fixture.edit.row \in 2 .. (1 + fixture.sheets[1].m)
    /\ fixture.edit.column = 2
    /\ fixture.edit.value # PyNone

MaxImportResults == 101

results_chunk_size == 50

\* the subsamples table: the id of a row is its position
SubsampleRow(sample, parent, name) == [sample |-> sample, parent |-> parent, name |-> name]

FirstId(S) == IF S = {} THEN 0 ELSE SetMin(S)

\* Subsamples.get_by_name: the subsample of the sample with this name, or None (0)
subsamples_get_by_name(table, sample_id, name) ==
    FirstId({k \in 1 .. Len(table) : table[k].sample = sample_id /\ table[k].name = name})

\* SubsampleChildren.get_by_name: the child of the subsample with this name, or None (0)
children_get_by_name(table, parent_id, name) ==
    FirstId({k \in 1 .. Len(table) : table[k].parent = parent_id /\ table[k].name = name})

\* the loop over enumerate(xl_result.subsample): get or create each part under the previous one
RECURSIVE SubsampleChain(_, _, _, _, _)
SubsampleChain(table, sample_id, parts, i, db_subsample) ==
    IF i > Len(parts) THEN [subsamples |-> table, id |-> db_subsample]
    ELSE LET found == IF i = 1 THEN subsamples_get_by_name(table, sample_id, parts[i])
                      ELSE children_get_by_name(table, db_subsample, parts[i])
             created == IF i = 1 THEN SubsampleRow(sample_id, 0, parts[i])
                        ELSE SubsampleRow(table[db_subsample].sample, db_subsample, parts[i])
         IN  IF found # 0 THEN SubsampleChain(table, sample_id, parts, i + 1, found)
             ELSE SubsampleChain(Append(table, created), sample_id, parts, i + 1, Len(table) + 1)

\* dict[key] after "if key not in dict: dict[key] = <new row>": ids count from 1
GetOrCreate(dict, key) ==
    IF key \in DOMAIN dict THEN dict ELSE DictSet(dict, key, Cardinality(DOMAIN dict) + 1)

RECURSIVE GetOrCreateAll(_, _)
GetOrCreateAll(dict, keys) ==
    IF keys = <<>> THEN dict ELSE GetOrCreateAll(GetOrCreate(dict, Head(keys)), Tail(keys))

\* the items created for a new metadata set: one for each value that is not None
MetadataSetItems(db_metadata_types, db_metadata_set_id, xl_metadata_set) ==
    LET kept == SelectSeq(xl_metadata_set, LAMBDA pair : pair[2] # PyNone)
    IN  [k \in 1 .. Len(kept) |-> [metadata_set |-> db_metadata_set_id,
                                    metadata_type |-> db_metadata_types[kept[k][1]],
                                    value |-> kept[k][2]]]

ResultRow(subsample_id, result_type_id, metadata_set_id, value) ==
    [subsample |-> subsample_id, type |-> result_type_id, metadata_set |-> metadata_set_id, value |-> value]

\* the unique index of the results table on (subsample, type, metadata_set)
UniqueFails(rows) ==
    \E j, k \in 1 .. Len(rows) :
        /\ j < k
        /\ rows[j].subsample = rows[k].subsample
        /\ rows[j].type = rows[k].type
        /\ rows[j].metadata_set = rows[k].metadata_set

\* the body of the loop over results_iter for xl_result, up to results_chunk.append
Prepared(imp, xl_result) ==
    LET db_sample == xl_result.sample_row_idx
        chain == SubsampleChain(imp.subsamples, db_sample, xl_result.subsample, 1, 0)
        new_subsample == xl_result.subsample \notin DOMAIN imp.db_subsamples
        db_subsamples == IF new_subsample THEN DictSet(imp.db_subsamples, xl_result.subsample, chain.id)
                         ELSE imp.db_subsamples
        db_result_types == GetOrCreate(imp.db_result_types, xl_result.type)
        new_metadata_set == xl_result.metadata_set \notin DOMAIN imp.db_metadata_sets
        db_metadata_sets == GetOrCreate(imp.db_metadata_sets, xl_result.metadata_set)
        db_metadata_types ==
            IF new_metadata_set
            THEN GetOrCreateAll(imp.db_metadata_types,
                                [k \in 1 .. Len(xl_result.metadata_set) |-> xl_result.metadata_set[k][1]])
            ELSE imp.db_metadata_types
        row == ResultRow(db_subsamples[xl_result.subsample], db_result_types[xl_result.type],
                         db_metadata_sets[xl_result.metadata_set], xl_result.value)
    IN  [imp EXCEPT !.xl_samples = DictSet(@, xl_result.sample_row_idx, xl_result.sample_row_idx),
                    !.db_subsamples = db_subsamples,
                    !.subsamples = IF new_subsample THEN chain.subsamples ELSE @,
                    !.db_result_types = db_result_types,
                    !.db_metadata_sets = db_metadata_sets,
                    !.db_metadata_types = db_metadata_types,
                    !.metadata_set_items =
                        IF new_metadata_set
                        THEN @ \o MetadataSetItems(db_metadata_types, db_metadata_sets[xl_result.metadata_set],
                                                   xl_result.metadata_set)
                        ELSE @,
                    !.results_chunk = Append(@, row),
                    !.consumed = @ + 1]

\* with self.db._db.atomic(): DBResult.insert_many(results_chunk).execute(); results_chunk = []
Flushed(imp) ==
    [imp EXCEPT !.results = @ \o imp.results_chunk,
                !.batches = Append(@, Len(imp.results_chunk)),
                !.results_chunk = <<>>]

\* the insert of the chunk breaks the unique index and is rolled back
FlushFails(imp) == UniqueFails(imp.results \o imp.results_chunk)

\* the records of a worksheet of ImportResultTypes result types, row by row:
\* the samples alternate, and the rows of the two samples have the same
\* subsample names when shared
ImportResultTypes == 2

ImportRecord(f, k) ==
    LET i == ((k - 1) \div ImportResultTypes) + 1
        j == ((k - 1) % ImportResultTypes) + 1
        name == "t" \o ToString(IF f.shared THEN (i + 1) \div 2 ELSE i)
    IN  [worksheet |-> WsName(1),
         cell |-> xlref(i, 2 + f.depth + j - 1),
         sample_row_idx |-> IF i % 2 = 1 THEN 1 ELSE 2,
         subsample |-> IF f.depth = 1 THEN <<name>> ELSE <<name, "u">>,
         type |-> "R" \o ToString(j),
         metadata_set |-> << <<"M1", "x">>, <<"M2", PyNone>> >>,
         value |-> "v" \o ToString(k),
         position |-> 1, row |-> i, column |-> 2 + f.depth + j - 1]

ImportFixtures == [count : 0 .. MaxImportResults, depth : 1 .. 2, shared : BOOLEAN]

ImportStream(f) == [k \in 1 .. f.count |-> ImportRecord(f, k)]

InitImport ==
    /\ fixture \in ImportFixtures
    /\ raw = <<>>
    /\ pc = "import"
    /\ data = <<>>
    /\ ws_i = 0
    /\ geometry = <<>>
    /\ indexes = <<>>
    /\ error = NoError
    /\ gen = GenStart
    /\ stream = ImportStream(fixture)
    /\ expected = fixture.count
    /\ importer = NoImporter

\* one iteration of the loop over results_iter
InsertResult ==
    /\ pc = "import"
    /\ importer.consumed < Len(stream)
    /\ LET prepared == Prepared(importer, stream[importer.consumed + 1])
       IN  IF Len(prepared.results_chunk) # results_chunk_size
           THEN importer' = prepared /\ UNCHANGED <<pc, error>>
           ELSE IF FlushFails(prepared)
           THEN importer' = prepared /\ pc' = "failed" /\ error' = Crash("peewee.IntegrityError")
           ELSE importer' = Flushed(prepared) /\ UNCHANGED <<pc, error>>
    /\ UNCHANGED <<fixture, raw, data, ws_i, geometry, indexes, gen, stream, expected>>

\* the else branch of the loop: the remainder is inserted
FinishImport ==
    /\ pc = "import"
    /\ importer.consumed = Len(stream)
    /\ IF importer.results_chunk = <<>>
       THEN pc' = "imported" /\ UNCHANGED <<importer, error>>
       ELSE IF FlushFails(importer)
       THEN pc' = "failed" /\ error' = Crash("peewee.IntegrityError") /\ UNCHANGED importer
       ELSE pc' = "imported" /\ importer' = Flushed(importer) /\ UNCHANGED error
    /\ UNCHANGED <<fixture, raw, data, ws_i, geometry, indexes, gen, stream, expected>>

NextImport ==
    \/ InsertResult
    \/ FinishImport

SpecImport == InitImport /\ [][NextImport]_vars

(***************************************************************************)
(* C29                                                                     *)
(***************************************************************************)
\* the rows handed to the database so far, then those still buffered
Handled == importer.results \o importer.results_chunk

\* C29: the import inserts every record of the stream exactly once and in
\* stream order: a batch is inserted each time the buffer holds 50 records and
\* the remainder after the stream ends, no batch exceeds 50 records, and
\* nothing is left in the buffer when the import has finished
C29_BatchedImport ==
    /\ pc \in {"import", "imported"}
    /\ Len(Handled) = importer.consumed
    /\ \A k \in 1 .. Len(Handled) : Handled[k].value = stream[k].value
    /\ Len(importer.results_chunk) < results_chunk_size
    /\ \A b \in 1 .. Len(importer.batches) :
           /\ importer.batches[b] <= results_chunk_size
           /\ b < Len(importer.batches) => importer.batches[b] = results_chunk_size
    /\ pc = "imported" => (importer.results_chunk = <<>> /\ Len(importer.results) = Len(stream))

(***************************************************************************)
(* C30                                                                     *)
(***************************************************************************)
\* C30: every result is stored against a subsample of its own sample: the
\* subsample of the row of record k belongs to the sample of record k, and
\* two records with the same subsample names but different samples are stored
\* under different subsamples
C30_OwnSubsampleChain ==
    /\ \A k \in 1 .. Len(Handled) :
           importer.subsamples[Handled[k].subsample].sample = stream[k].sample_row_idx
    /\ \A j, k \in 1 .. Len(Handled) :
           (stream[j].subsample = stream[k].subsample /\ stream[j].sample_row_idx # stream[k].sample_row_idx)
               => Handled[j].subsample # Handled[k].subsample

====
